---------------------------- MODULE Spec2Model ----------------------------
(* A model of printables_downloader/downloader.py: the filename sanitizer,  *)
(* the page extractor's outcomes, the link resolver, the file fetcher with  *)
(* its retry loop, the two-pass download orchestrator and main's exit code. *)
(* Strings are sequences of one-character strings, so that lower(),         *)
(* endswith() and the per-character substitution are computed, not assumed. *)
EXTENDS Integers, Sequences, FiniteSets, TLC

VARIABLES
    (* ---- inputs of one process: argv and what the page decodes to ---- *)
    stls,           \* data["data"]["model"]["stls"]: sequence of [name, folder]; file id = position
    reqExt,         \* args.ext after the "." prefixing of line 183
    dry_run,        \* args.dry
    (* ---- program state of main / download_model_files / download_file ---- *)
    pc,             \* position of the single thread of control
    data,           \* what extract_model_json_from_url returned: "none" | "model" | "nomodel"
    extensions,     \* the list passed to download_model_files (line 127 appends to it)
    files,          \* line 129: indices into stls of the retained descriptors
    remaining,      \* line 131/143: sequence of <<file index, save_path>>
    i,              \* loop position of the first pass (line 132)
    j,              \* loop position of the second pass (line 145)
    attempt,        \* number of attempts download_file has completed (line 92)
    dirs,           \* directories on disk (paths relative to output_root; <<>> is output_root)
    disk,           \* regular files on disk: path -> content
    exitCode,       \* <<>> while the process runs, <<status>> once it has exited
    (* ---- observation of one run (history) ---- *)
    resolverCalls,  \* file indices passed to graphql_download_url, in call order
    fetchCalls,     \* file indices passed to download_file, in call order
    outcome,        \* file index -> what the orchestrator observed for it
    opened,         \* the current download_file call has opened its destination
    statusOnly,     \* every attempt of the current download_file call got a non-success status
    cause,          \* why the process ended
    dirs0,          \* directories at the start of this run
    disk0,          \* files at the start of this run
    prevClean,      \* the previous run was non-dry, ended normally, and fetched every file it attempted
    prevWrote,      \* the paths that run saved, when prevClean
    (* ---- the sanitizer applied on its own ---- *)
    sIn,            \* input string
    sOut,           \* sanitize_filename(sIn), or Unset
    sOut2           \* sanitize_filename(sOut), or Unset

inputVars == <<stls, reqExt, dry_run>>
progVars  == <<pc, data, extensions, files, remaining, i, j, attempt, dirs, disk, exitCode>>
histVars  == <<resolverCalls, fetchCalls, outcome, opened, statusOnly,
               cause, dirs0, disk0, prevClean, prevWrote>>
sanVars   == <<sIn, sOut, sOut2>>
vars      == <<inputVars, progVars, histVars, sanVars>>

-----------------------------------------------------------------------------
(* Bounds of the model. *)
MaxFiles == 3
MaxSelFiles == 2
MaxLen == 3

(* Program constants. *)
Attempts == 3

Unset == <<"unset", "unset", "unset", "unset", "unset", "unset">>

-----------------------------------------------------------------------------
(* Strings. *)

INVALID_WINDOWS_CHARS == {"<", ">", ":", "\"", "/", "\\", "|", "?", "*"}

\* str.lower() on the letters the model's strings use.
LowerChar(c) ==
    CASE c = "A" -> "a" [] c = "B" -> "b" [] c = "S" -> "s" [] c = "T" -> "t"
      [] c = "L" -> "l" [] c = "M" -> "m" [] c = "F" -> "f" [] OTHER -> c

Lower(s) == [k \in 1..Len(s) |-> LowerChar(s[k])]

\* str.endswith(suffix)
EndsWith(s, suf) ==
    /\ Len(suf) <= Len(s)
    /\ SubSeq(s, Len(s) - Len(suf) + 1, Len(s)) = suf

\* str.endswith(tuple): some element of the tuple is a suffix
EndsWithAny(s, sufs) == \E k \in 1..Len(sufs) : EndsWith(s, sufs[k])

Contains(seq, x) == \E k \in 1..Len(seq) : seq[k] = x

\* a variant that forgets one character of the set
sanitize_filename_missing_star(name) ==
    [k \in 1..Len(name) |->
        IF name[k] \in (INVALID_WINDOWS_CHARS \ {"*"}) THEN "_" ELSE name[k]]

\* line 27: "".join(c if c not in INVALID_WINDOWS_CHARS else "_" for c in name)
sanitize_filename(name) ==
    [k \in 1..Len(name) |-> IF name[k] \in INVALID_WINDOWS_CHARS THEN "_" ELSE name[k]]

\* os.path.join(os.path.join(output_root, folder), file_name), relative to
\* output_root.  Both segments are sanitized, so neither holds a separator.
JoinPath(folder, file_name) ==
    IF folder = <<>> THEN file_name ELSE folder \o <<"/">> \o file_name

\* lines 133-137: the destination directory and path of a descriptor
SaveDir(file) == sanitize_filename(file.folder)
SavePath(file) == JoinPath(SaveDir(file), sanitize_filename(file.name))

-----------------------------------------------------------------------------
(* Input domains. *)

Ext3mf == <<".", "3", "m", "f">>
ExtStl == <<".", "s", "t", "l">>

SeqsUpTo(S, n) == UNION {[1..m -> S] : m \in 0..n}

\* File descriptors of the orchestration runs: one .3mf at the top level and
\* two .stl whose names differ only in a disallowed character, in folder "d".
Descriptors ==
    { [name |-> <<"a">> \o Ext3mf,       folder |-> <<>>],
      [name |-> <<"b", "?">> \o ExtStl,  folder |-> <<"d">>],
      [name |-> <<"b", "*">> \o ExtStl,  folder |-> <<"d">>] }

ReqExtChoices == { <<Ext3mf>>, <<ExtStl>>, <<Ext3mf, ExtStl>> }

\* Content of a regular file: what was there when the process started, or the
\* body (whole or cut short) that this process wrote for the file with index src.
Old == [kind |-> "old", src |-> 0]
Full(idx) == [kind |-> "full", src |-> idx]
Partial(idx) == [kind |-> "partial", src |-> idx]

\* Disks a process can start on: every file lies in an existing directory,
\* and a sub-directory exists only under an existing output_root.
InitialDisks ==
    { d \in [dirs : SUBSET {<<>>, <<"d">>},
             files : SUBSET {SavePath(f) : f \in Descriptors}] :
        /\ (<<"d">> \in d.dirs) => (<<>> \in d.dirs)
        /\ \A f \in Descriptors : SavePath(f) \in d.files => SaveDir(f) \in d.dirs }

-----------------------------------------------------------------------------
(* download_model_files, lines 120-129: the extension fallback and the filter. *)

\* line 123: any(f["name"].lower().endswith(".3mf") for f in stls)
Has3mf(fileList) == \E k \in 1..Len(fileList) : EndsWith(Lower(fileList[k].name), Ext3mf)

\* lines 123-127: the list after the conditional extensions.append(".stl")
EffectiveExtensions(exts, fileList) ==
    IF Contains(exts, Ext3mf) /\ ~Has3mf(fileList) /\ ~Contains(exts, ExtStl)
    THEN Append(exts, ExtStl)
    ELSE exts

\* line 129: f["name"].lower().endswith(tuple(extensions))
Retained(file, exts) == EndsWithAny(Lower(file.name), exts)

\* line 129: the indices of the retained descriptors, in list order
RetainedFiles(fileList, exts) ==
    SelectSeq([k \in 1..Len(fileList) |-> k], LAMBDA k : Retained(fileList[k], exts))

-----------------------------------------------------------------------------
(* The outcomes of the remote calls and of the filesystem. *)

\* What the page request and its decoding can come to (lines 36-63), and
\* whether the decoded payload holds data.model (line 120).
PageOutcomes == {"ok", "okNoModel", "getRaises", "badStatus", "noScript", "badJson", "noBody"}

\* lines 36-63: the extractor returns the inner JSON or raises RuntimeError
\* (a transport failure of SESSION.get raises as well)
ExtractReturns(page) == page \in {"ok", "okNoModel"}

\* What the POST of graphql_download_url can come to (lines 79-83).
Responses ==
    {"httpError", "notJson", "noData", "noGetDownloadLink", "noOk", "okFalse",
     "okTrueNoOutput", "okTrueNoLink", "okTrueEmptyLink", "okTrueLink"}

Raises(exc) == [raises |-> exc, value |-> "none"]
Returns(v) == [raises |-> "none", value |-> v]

\* lines 79-84: the exception raised, or the value returned (None, "" or a link)
graphql_download_url(resp) ==
    CASE resp = "httpError"         -> Raises("HTTPError")   \* line 79 / raise_for_status, line 80
      [] resp = "notJson"           -> Raises("JSONDecodeError")   \* r.json(), line 81
      [] resp = "noData"            -> Raises("KeyError")    \* data["data"], line 82
      [] resp = "noGetDownloadLink" -> Raises("KeyError")    \* ["getDownloadLink"], line 82
      [] resp = "noOk"              -> Raises("KeyError")    \* ["ok"], line 82
      [] resp = "okFalse"           -> Returns("None")       \* line 84
      [] resp = "okTrueNoOutput"    -> Raises("KeyError")    \* ["output"], line 83
      [] resp = "okTrueNoLink"      -> Raises("KeyError")    \* ["link"], line 83
      [] resp = "okTrueEmptyLink"   -> Returns("")           \* line 83 returns the falsy link
      [] resp = "okTrueLink"        -> Returns("link")       \* line 83

\* line 153: if url
Truthy(url) == url = "link"

\* What one attempt of download_file can come to (lines 96-106).
AttemptOutcomes == {"saved", "badStatus", "getRaises", "openRaises", "writeRaises"}

\* a loop that tries once more than the budget
HasNextAttemptOffByOne(a) == a < Attempts + 1

\* line 92: for attempt in range(3)
HasNextAttempt(a) == a < Attempts

\* a write that lands nowhere
WriteFileLost(dsk, path, content) == dsk

\* a write that refuses to replace an existing file
WriteFileExclusive(dsk, path, content) ==
    IF path \in DOMAIN dsk THEN dsk
    ELSE [q \in DOMAIN dsk \cup {path} |-> IF q = path THEN content ELSE dsk[q]]

\* lines 98-100: open(save_path, "wb") creates or truncates, the loop writes
WriteFile(dsk, path, content) ==
    [q \in DOMAIN dsk \cup {path} |-> IF q = path THEN content ELSE dsk[q]]

\* line 136: os.makedirs(save_dir, exist_ok=True) creates save_dir and its parents
Makedirs(ds, save_dir) == ds \cup {<<>>, save_dir}

\* a check that never finds the file
SkipFileNever(dsk, path, dry) == FALSE

\* line 139: os.path.exists(save_path) and not dry_run
SkipFile(dsk, path, dry) == path \in DOMAIN dsk /\ ~dry

\* a handler for Exception that forgets sys.exit(1)
MainExitStatusSwallow(exc) == IF exc = "KeyboardInterrupt" THEN 1 ELSE 0

\* main, lines 173-192: the exit status, by what reached the top level
\* ("none": main returned; "KeyboardInterrupt": lines 187-189; any other
\* exception: lines 190-192)
MainExitStatus(exc) ==
    CASE exc = "none"              -> 0
      [] exc = "KeyboardInterrupt" -> 1
      [] OTHER                     -> 1

-----------------------------------------------------------------------------
(* The process. *)

NoCause == [site |-> "none", exc |-> "none"]

\* The state of a process about to run main on the disk (ds, dsk).
Fresh(ds, dsk) ==
    /\ pc = "start"
    /\ data = "none"
    /\ extensions = reqExt
    /\ files = <<>>
    /\ remaining = <<>>
    /\ i = 1
    /\ j = 1
    /\ attempt = 0
    /\ dirs = ds
    /\ disk = dsk
    /\ exitCode = <<>>
    /\ resolverCalls = <<>>
    /\ fetchCalls = <<>>
    /\ outcome = [k \in 1..Len(stls) |-> "none"]
    /\ opened = FALSE
    /\ statusOnly = TRUE
    /\ cause = NoCause
    /\ dirs0 = ds
    /\ disk0 = dsk

SanIdle == sIn = <<>> /\ sOut = Unset /\ sOut2 = Unset

\* No process is running.
Parked ==
    /\ stls = <<>>
    /\ reqExt = <<Ext3mf>>
    /\ dry_run = FALSE
    /\ pc = "parked"
    /\ data = "none"
    /\ extensions = reqExt
    /\ files = <<>>
    /\ remaining = <<>>
    /\ i = 1
    /\ j = 1
    /\ attempt = 0
    /\ dirs = {}
    /\ disk = <<>>
    /\ exitCode = <<>>
    /\ resolverCalls = <<>>
    /\ fetchCalls = <<>>
    /\ outcome = <<>>
    /\ opened = FALSE
    /\ statusOnly = TRUE
    /\ cause = NoCause
    /\ dirs0 = {}
    /\ disk0 = <<>>
    /\ prevClean = FALSE
    /\ prevWrote = {}

Init ==
    /\ stls \in SeqsUpTo(Descriptors, MaxFiles)
    /\ reqExt \in ReqExtChoices
    /\ dry_run \in BOOLEAN
    /\ \E d \in InitialDisks : Fresh(d.dirs, [q \in d.files |-> Old])
    /\ prevClean = FALSE
    /\ prevWrote = {}
    /\ SanIdle

\* An exception exc raised at site reaches main's handlers, or main returns
\* (exc = "none"): the process ends with main's exit status.
ExitWith(site, exc) ==
    /\ pc' = "exited"
    /\ exitCode' = <<MainExitStatus(exc)>>
    /\ cause' = [site |-> site, exc |-> exc]

\* main line 179: extract_model_json_from_url (lines 30-63)
Extract ==
    /\ pc = "start"
    /\ \E page \in PageOutcomes :
        IF ExtractReturns(page)
        THEN /\ pc' = "filter"
             /\ data' = IF page = "ok" THEN "model" ELSE "nomodel"
             /\ UNCHANGED <<exitCode, cause>>
        ELSE /\ ExitWith("page", "RuntimeError")
             /\ UNCHANGED data
    /\ UNCHANGED <<inputVars, sanVars, extensions, files, remaining, i, j, attempt, dirs, disk>>
    /\ UNCHANGED <<resolverCalls, fetchCalls, outcome, opened, statusOnly,
                   dirs0, disk0, prevClean, prevWrote>>

\* download_model_files lines 120-131: read the model, extend the extensions,
\* filter; an empty selection leaves both loops without iterations
Filter ==
    /\ pc = "filter"
    /\ IF data = "model"
       THEN /\ extensions' = EffectiveExtensions(extensions, stls)
            /\ files' = RetainedFiles(stls, extensions')
            /\ pc' = IF files' = <<>> THEN "resolve" ELSE "scan"
            /\ UNCHANGED <<exitCode, cause>>
       ELSE /\ ExitWith("model", "KeyError")
            /\ UNCHANGED <<extensions, files>>
    /\ UNCHANGED <<inputVars, sanVars, data, remaining, i, j, attempt, dirs, disk>>
    /\ UNCHANGED <<resolverCalls, fetchCalls, outcome, opened, statusOnly,
                   dirs0, disk0, prevClean, prevWrote>>

\* download_model_files lines 132-143: one iteration of the first loop.
\* os.makedirs can fail only when it has something to create.
Scan ==
    /\ pc = "scan"
    /\ i <= Len(files)
    /\ LET file == stls[files[i]]
           save_dir == SaveDir(file)
           save_path == SavePath(file)
       IN \/ /\ dirs' = Makedirs(dirs, save_dir)
             /\ IF SkipFile(disk, save_path, dry_run)
                THEN /\ outcome' = [outcome EXCEPT ![files[i]] = "skipped"]
                     /\ UNCHANGED remaining
                ELSE /\ remaining' = Append(remaining, <<files[i], save_path>>)
                     /\ UNCHANGED outcome
             /\ i' = i + 1
             /\ pc' = IF i' > Len(files) THEN "resolve" ELSE "scan"
             /\ UNCHANGED <<exitCode, cause>>
          \/ /\ save_dir \notin dirs
             /\ ExitWith("makedirs", "OSError")
             /\ UNCHANGED <<dirs, outcome, remaining, i>>
    /\ UNCHANGED <<inputVars, sanVars, data, extensions, files, j, attempt, disk>>
    /\ UNCHANGED <<resolverCalls, fetchCalls, opened, statusOnly,
                   dirs0, disk0, prevClean, prevWrote>>

\* download_model_files lines 145-158, up to the first attempt of the fetch:
\* the resolver call for remaining[j], then the branch on its result.  In a
\* dry run download_file returns True at once (lines 88-90).
Resolve ==
    /\ pc = "resolve"
    /\ j <= Len(remaining)
    /\ \E resp \in Responses :
        LET idx == remaining[j][1]
            r == graphql_download_url(resp)
        IN /\ resolverCalls' = Append(resolverCalls, idx)
           /\ IF r.raises # "none"
              THEN /\ ExitWith("resolver", r.raises)
                   /\ UNCHANGED <<j, attempt, fetchCalls, outcome, opened, statusOnly>>
              ELSE IF ~Truthy(r.value)
              THEN /\ outcome' = [outcome EXCEPT ![idx] = "unavailable"]
                   /\ j' = j + 1
                   /\ UNCHANGED <<pc, exitCode, cause, attempt, fetchCalls, opened, statusOnly>>
              ELSE IF dry_run
              THEN /\ fetchCalls' = Append(fetchCalls, idx)
                   /\ outcome' = [outcome EXCEPT ![idx] = "simulated"]
                   /\ j' = j + 1
                   /\ UNCHANGED <<pc, exitCode, cause, attempt, opened, statusOnly>>
              ELSE /\ fetchCalls' = Append(fetchCalls, idx)
                   /\ pc' = "fetch"
                   /\ attempt' = 0
                   /\ opened' = FALSE
                   /\ statusOnly' = TRUE
                   /\ UNCHANGED <<exitCode, cause, j, outcome>>
    /\ UNCHANGED <<inputVars, sanVars, data, extensions, files, remaining, i, dirs, disk>>
    /\ UNCHANGED <<dirs0, disk0, prevClean, prevWrote>>

\* download_file lines 92-110: one iteration of the retry loop, with the
\* sleep that follows a failed attempt and, after the last one, the return of
\* False to line 154
FetchAttempt ==
    /\ pc = "fetch"
    /\ HasNextAttempt(attempt)
    /\ \E res \in AttemptOutcomes :
        LET idx == remaining[j][1]
            save_path == remaining[j][2]
        IN /\ attempt' = attempt + 1
           /\ IF res = "saved"
              THEN /\ disk' = WriteFile(disk, save_path, Full(idx))
                   /\ opened' = TRUE
                   /\ statusOnly' = FALSE
                   /\ outcome' = [outcome EXCEPT ![idx] = "saved"]
                   /\ j' = j + 1
                   /\ pc' = "resolve"
              ELSE /\ disk' = IF res = "writeRaises"
                                THEN WriteFile(disk, save_path, Partial(idx))
                                ELSE disk
                   /\ opened' = (opened \/ res = "writeRaises")
                   /\ statusOnly' = (statusOnly /\ res = "badStatus")
                   /\ IF HasNextAttempt(attempt')
                      THEN UNCHANGED <<outcome, j, pc>>
                      ELSE /\ outcome' = [outcome EXCEPT ![idx] = "failed"]
                           /\ j' = j + 1
                           /\ pc' = "resolve"
    /\ UNCHANGED <<inputVars, sanVars, data, extensions, files, remaining, i, dirs, exitCode>>
    /\ UNCHANGED <<resolverCalls, fetchCalls, cause, dirs0, disk0, prevClean, prevWrote>>

\* download_model_files line 160 and the return through main: exit status 0
Finish ==
    /\ pc = "resolve"
    /\ j > Len(remaining)
    /\ ExitWith("none", "none")
    /\ UNCHANGED <<inputVars, sanVars, data, extensions, files, remaining, i, j, attempt,
                   dirs, disk>>
    /\ UNCHANGED <<resolverCalls, fetchCalls, outcome, opened, statusOnly,
                   dirs0, disk0, prevClean, prevWrote>>

\* The user interrupts the process (main lines 187-189).  An interrupt in
\* the middle of a write leaves the destination cut short (no temp file).
Interrupt ==
    /\ pc \in {"start", "filter", "scan", "resolve", "fetch"}
    /\ ExitWith(pc, "KeyboardInterrupt")
    /\ \/ UNCHANGED <<disk, opened>>
       \/ /\ pc = "fetch"
          /\ disk' = WriteFile(disk, remaining[j][2], Partial(remaining[j][1]))
          /\ opened' = TRUE
    /\ UNCHANGED <<inputVars, sanVars, data, extensions, files, remaining, i, j, attempt, dirs>>
    /\ UNCHANGED <<resolverCalls, fetchCalls, outcome, statusOnly,
                   dirs0, disk0, prevClean, prevWrote>>

\* Whether the run that just ended was non-dry, returned normally and saved
\* every file it attempted.
RunWasClean ==
    /\ ~dry_run
    /\ cause = [site |-> "none", exc |-> "none"]
    /\ \A k \in 1..Len(remaining) : outcome[remaining[k][1]] = "saved"

\* A new process is started with the same arguments on the disk the last one
\* left; what the last one wrote is, to the new one, what was there before.
Rerun ==
    /\ pc = "exited"
    /\ prevClean' = RunWasClean
    /\ prevWrote' = IF RunWasClean THEN {remaining[k][2] : k \in 1..Len(remaining)} ELSE {}
    /\ pc' = "start"
    /\ data' = "none"
    /\ extensions' = reqExt
    /\ files' = <<>>
    /\ remaining' = <<>>
    /\ i' = 1
    /\ j' = 1
    /\ attempt' = 0
    /\ exitCode' = <<>>
    /\ resolverCalls' = <<>>
    /\ fetchCalls' = <<>>
    /\ outcome' = [k \in 1..Len(stls) |-> "none"]
    /\ opened' = FALSE
    /\ statusOnly' = TRUE
    /\ cause' = NoCause
    /\ disk' = [q \in DOMAIN disk |-> Old]
    /\ dirs0' = dirs
    /\ disk0' = disk'
    /\ UNCHANGED <<inputVars, sanVars, dirs>>

Next == Extract \/ Filter \/ Scan \/ Resolve \/ FetchAttempt \/ Finish \/ Interrupt \/ Rerun

Spec == Init /\ [][Next]_vars

-----------------------------------------------------------------------------
(* The sanitizer on its own: every string over SanAlphabet up to MaxLen. *)

SanAlphabet == INVALID_WINDOWS_CHARS \cup {"a", ".", "_"}

SanInit ==
    /\ Parked
    /\ sIn \in SeqsUpTo(SanAlphabet, MaxLen)
    /\ sOut = Unset
    /\ sOut2 = Unset

\* sanitize_filename(name), as at line 133
SanitizeOnce ==
    /\ sOut = Unset
    /\ sOut' = sanitize_filename(sIn)
    /\ UNCHANGED <<inputVars, progVars, histVars, sIn, sOut2>>

\* sanitize_filename applied to its own result
SanitizeAgain ==
    /\ sOut # Unset
    /\ sOut2 = Unset
    /\ sOut2' = sanitize_filename(sOut)
    /\ UNCHANGED <<inputVars, progVars, histVars, sIn, sOut>>

SanNext == SanitizeOnce \/ SanitizeAgain

SanSpec == SanInit /\ [][SanNext]_vars

-----------------------------------------------------------------------------
(* The file selection on its own: names and requested extensions in both cases. *)

SelNames ==
    { <<"a">> \o Ext3mf, <<"A", ".", "3", "M", "F">>,
      <<"b">> \o ExtStl, <<"B", ".", "S", "T", "L">>,
      <<"s", "t", "l">> }

SelDescriptors == {[name |-> n, folder |-> <<>>] : n \in SelNames}

SelExtChoices ==
    { <<Ext3mf>>, <<ExtStl>>, <<Ext3mf, ExtStl>>,
      <<<<".", "S", "T", "L">>>>, <<<<".", "3", "M", "F">>>>,
      <<Ext3mf, <<".", "S", "T", "L">>>> }

\* The process stands at the call of download_model_files (line 180).
SelInit ==
    /\ stls \in SeqsUpTo(SelDescriptors, MaxSelFiles)
    /\ reqExt \in SelExtChoices
    /\ dry_run \in BOOLEAN
    /\ pc = "filter"
    /\ data = "model"
    /\ extensions = reqExt
    /\ files = <<>>
    /\ remaining = <<>>
    /\ i = 1
    /\ j = 1
    /\ attempt = 0
    /\ dirs = {}
    /\ disk = <<>>
    /\ exitCode = <<>>
    /\ resolverCalls = <<>>
    /\ fetchCalls = <<>>
    /\ outcome = [k \in 1..Len(stls) |-> "none"]
    /\ opened = FALSE
    /\ statusOnly = TRUE
    /\ cause = NoCause
    /\ dirs0 = {}
    /\ disk0 = <<>>
    /\ prevClean = FALSE
    /\ prevWrote = {}
    /\ SanIdle

SelNext == Filter

SelSpec == SelInit /\ [][SelNext]_vars

-----------------------------------------------------------------------------
(* Shared vocabulary of the properties. *)

Exited == pc = "exited"
NormalEnd == Exited /\ cause.exc = "none"
Interrupted == Exited /\ cause.exc = "KeyboardInterrupt"

Elems(seq) == {seq[k] : k \in 1..Len(seq)}
RemainingIdx == [k \in 1..Len(remaining) |-> remaining[k][1]]

\* The destination of descriptor k existed when the run started.
PresentAtStart(k) == SavePath(stls[k]) \in DOMAIN disk0

\* The first loop has ended (the second loop runs or has run).
ScanDone == pc \in {"resolve", "fetch"} \/ (Exited /\ cause.site \in {"none", "resolver", "resolve", "fetch"})

-----------------------------------------------------------------------------
(* C9.  Filename Sanitizer: sanitize_filename replaces each character of   *)
(* <>:"/\|?* by "_" one-for-one and leaves every other character unchanged *)
(* in place: same length, no disallowed character in the result, a string  *)
(* without disallowed characters is returned unchanged, and sanitizing     *)
(* twice equals sanitizing once.                                           *)
C9_SanitizerOneForOne ==
    /\ sOut # Unset =>
        /\ Len(sOut) = Len(sIn)
        /\ \A k \in 1..Len(sIn) :
              sOut[k] = (IF sIn[k] \in {"<", ">", ":", "\"", "/", "\\", "|", "?", "*"}
                         THEN "_" ELSE sIn[k])
        /\ \A k \in 1..Len(sOut) : sOut[k] \notin {"<", ">", ":", "\"", "/", "\\", "|", "?", "*"}
        /\ ((\A k \in 1..Len(sIn) : sIn[k] \notin {"<", ">", ":", "\"", "/", "\\", "|", "?", "*"})
              => sOut = sIn)
    /\ sOut2 # Unset => sOut2 = sOut

\* A string with a disallowed and an allowed character has been sanitized twice.
C9_Witness ==
    /\ sOut2 # Unset
    /\ \E k \in 1..Len(sIn) : sIn[k] = "*"
    /\ \E k \in 1..Len(sIn) : sIn[k] = "a"
    /\ sOut # sIn

-----------------------------------------------------------------------------
(* C6.  File selection: the retained files are exactly those whose name    *)
(* ends, case-insensitively, with some extension of the effective set,     *)
(* where the effective set is the requested set plus ".stl" exactly when   *)
(* ".3mf" is requested, no file name ends in ".3mf" (case-insensitive) and *)
(* ".stl" is not already requested.                                        *)
ClaimedEffectiveSet ==
    Elems(reqExt) \cup
        (IF /\ Ext3mf \in Elems(reqExt)
            /\ ~\E k \in 1..Len(stls) : EndsWith(Lower(stls[k].name), Lower(Ext3mf))
            /\ ExtStl \notin Elems(reqExt)
         THEN {ExtStl} ELSE {})

ClaimedRetained(k) ==
    \E e \in ClaimedEffectiveSet : EndsWith(Lower(stls[k].name), Lower(e))

\* C6: after the filter, the retained files are, in list order, exactly those
\* whose name ends case-insensitively with an extension of the effective set.
C6_SelectionCaseInsensitive ==
    pc \in {"scan", "resolve"} =>
        /\ Elems(files) = {k \in 1..Len(stls) : ClaimedRetained(k)}
        /\ \A a, b \in 1..Len(files) : a < b => files[a] < files[b]

-----------------------------------------------------------------------------
(* C1.  File Fetcher, non-dry-run: download_file makes at most 3 attempts  *)
(* and stops at the first successful one; when every attempt fails it      *)
(* returns False after exactly 3 attempts and never raises to its caller;  *)
(* while every response so far was a non-success status it has neither     *)
(* opened nor written the destination.                                     *)
C1_FetchStep ==
    pc = "fetch" =>
        LET idx == remaining[j][1] IN
        /\ attempt < 3 /\ attempt' <= 3
        /\ outcome[idx] = "none"
        \* the first successful attempt ends the call
        /\ outcome'[idx] = "saved" => (pc' = "resolve" /\ j' = j + 1)
        \* failure is reported after exactly 3 attempts, by return
        /\ outcome'[idx] = "failed" => (attempt' = 3 /\ pc' = "resolve" /\ j' = j + 1)
        /\ (attempt' = 3 /\ outcome'[idx] # "saved") => outcome'[idx] = "failed"
        /\ (attempt' < 3 /\ outcome'[idx] # "saved" /\ pc' # "exited") => pc' = "fetch"
        \* nothing but the user's interrupt leaves the call by an exception
        /\ pc' = "exited" => cause'.exc = "KeyboardInterrupt"
        \* only non-success statuses so far: the destination is untouched
        /\ (statusOnly' /\ pc' # "exited") => (disk' = disk /\ ~opened')

\* C1: every step taken inside download_file's retry loop satisfies C1_FetchStep
\* (at most 3 attempts, stop at the first success, False after exactly 3
\* failures, no exception to the caller, no write on non-success statuses).
C1_FetchBounded == [][C1_FetchStep]_vars

\* A call has returned False after three non-success statuses.
C1_Witness ==
    /\ pc = "resolve"
    /\ fetchCalls # <<>>
    /\ outcome[fetchCalls[Len(fetchCalls)]] = "failed"
    /\ attempt = 3
    /\ statusOnly
    /\ ~opened
    /\ disk = disk0

-----------------------------------------------------------------------------
(* C2.  Dry-run mode: a run with dry_run=True performs zero network calls  *)
(* in the fetch step and zero filesystem writes (no directory creation, no *)
(* file write), and reports a simulated success for every retained file.   *)
C2_DryRunTouchesNothing ==
    dry_run =>
        /\ pc # "fetch"
        /\ disk = disk0
        /\ dirs = dirs0
        /\ NormalEnd => \A k \in Elems(files) : outcome[k] = "simulated"

-----------------------------------------------------------------------------
(* C3.  No file's failure halts processing of subsequent files: in a       *)
(* non-dry run every retained file that was not skipped gets exactly one   *)
(* resolver call, in list order, whatever happened to the files before it  *)
(* (no link, resolver call failed, fetcher exhausted its retries).  Stated *)
(* of a run that ended on its own after the first loop, not interrupted.   *)
C3_EveryRemainingFileResolved ==
    (Exited /\ ~dry_run /\ ~Interrupted /\ ScanDone) =>
        resolverCalls = SelectSeq(files, LAMBDA k : ~PresentAtStart(k))

-----------------------------------------------------------------------------
(* C4.  Link Resolver outcome classification: graphql_download_url raises  *)
(* only when the HTTP call itself fails; ok = false or a response lacking  *)
(* the expected link gives None, which the orchestrator treats as a        *)
(* non-fatal "unavailable".                                                *)
C4_ResolverRaisesOnlyOnHttpFailure ==
    (Exited /\ cause.site = "resolver") => cause.exc = "HTTPError"

-----------------------------------------------------------------------------
(* C5.  Skip-if-present: in a non-dry run, a retained file whose           *)
(* destination exists when the run starts gets no resolver call and no     *)
(* fetcher call, its content stays untouched, handling it raises no error, *)
(* and the other retained files are all still processed.                   *)
C5_SkipIfPresent ==
    ~dry_run =>
        /\ \A k \in Elems(files) : PresentAtStart(k) =>
              /\ k \notin Elems(resolverCalls)
              /\ k \notin Elems(fetchCalls)
              /\ k \notin Elems(RemainingIdx)
              /\ SavePath(stls[k]) \in DOMAIN disk
              /\ disk[SavePath(stls[k])] = disk0[SavePath(stls[k])]
        \* the first loop is never left by an error at a present file
        /\ (Exited /\ cause.site = "makedirs") => ~PresentAtStart(files[i])
        \* every other retained file reaches the second loop ...
        /\ ScanDone => RemainingIdx = SelectSeq(files, LAMBDA k : ~PresentAtStart(k))
        \* ... and a run that returns has skipped the present ones and handled the others
        /\ NormalEnd => \A k \in Elems(files) :
              IF PresentAtStart(k) THEN outcome[k] = "skipped"
              ELSE outcome[k] \in {"saved", "failed", "unavailable"}

\* A run that skipped a present file and saved another one has returned.
C5_Witness ==
    /\ NormalEnd
    /\ ~dry_run
    /\ \E k1, k2 \in Elems(files) :
          /\ k1 < k2
          /\ PresentAtStart(k1) /\ outcome[k1] = "skipped"
          /\ ~PresentAtStart(k2) /\ outcome[k2] = "saved"
          /\ disk[SavePath(stls[k1])] = Old

-----------------------------------------------------------------------------
(* C7.  Process exit status: non-zero when the page fetch or parse fails,  *)
(* when any other exception reaches the top level, or on user              *)
(* interruption; after a page failure no resolver or fetcher call was      *)
(* made; zero in every other case, including runs in which files were      *)
(* unavailable or failed after 3 attempts.                                 *)
C7_ExitStatus ==
    /\ ~Exited => exitCode = <<>>
    /\ Exited =>
        /\ exitCode \in {<<0>>, <<1>>}
        /\ (exitCode # <<0>>) <=>
              \/ cause.site = "page"
              \/ cause.exc = "KeyboardInterrupt"
              \/ cause.exc \in {"RuntimeError", "KeyError", "OSError", "HTTPError", "JSONDecodeError"}
        /\ cause.site = "page" => (resolverCalls = <<>> /\ fetchCalls = <<>>)
        \* status 0 is the status of a run that went through its whole list,
        \* whatever the files came to
        /\ (exitCode = <<0>>) =>
              /\ data = "model"
              /\ j = Len(remaining) + 1
              /\ \A k \in Elems(RemainingIdx) :
                    outcome[k] \in {"saved", "simulated", "failed", "unavailable"}

\* A run with an unavailable file and a file given up on has exited with 0.
C7_Witness ==
    /\ Exited
    /\ exitCode = <<0>>
    /\ \E k \in Elems(files) : outcome[k] = "failed"
    /\ \E k \in Elems(files) : outcome[k] = "unavailable"

-----------------------------------------------------------------------------
(* C8.  Re-run idempotence: after a non-dry run in which every attempted   *)
(* file was fetched successfully, a second run over the same model, output *)
(* root and extensions skips every retained file: no resolver call, no     *)
(* fetcher call, no change on disk.                                        *)
C8_RerunSkipsEverything ==
    prevClean =>
        /\ resolverCalls = <<>>
        /\ fetchCalls = <<>>
        /\ remaining = <<>>
        /\ pc # "fetch"
        /\ disk = disk0
        /\ dirs = dirs0
        \* every retained file looked at so far was skipped, and a run that
        \* returns has looked at all of them
        /\ \A k \in 1..(i - 1) : outcome[files[k]] = "skipped"
        /\ NormalEnd => i = Len(files) + 1
        /\ (Exited /\ cause.exc # "KeyboardInterrupt") => cause.exc \in {"none", "RuntimeError", "KeyError"}

\* The second run has returned after skipping a file the first run saved.
C8_Witness ==
    /\ prevClean
    /\ NormalEnd
    /\ \E k \in Elems(files) :
          /\ SavePath(stls[k]) \in prevWrote
          /\ outcome[k] = "skipped"

-----------------------------------------------------------------------------
=============================================================================
